---- MODULE Spec2Model ----
(***************************************************************************)
(* Model of the retrieval and validation primitives of the HMO chatbot     *)
(* (hmo-chatbot-part2) and of the OCR field extractor (hmp-OCR-part1):     *)
(*   - chunk_text        rag_index.py:46-57 and embed_texts.py:26-35       *)
(*   - search/rag_search rag_index.py:96-111 and server.py:166-183, /qa    *)
(*   - validate_schema   app_streamlit.py:132-176                          *)
(* Each component has its own specification (SpecChunk, SpecSearch,        *)
(* SpecValidate); the variables of the other components stay idle in it.   *)
(***************************************************************************)
EXTENDS Integers, Sequences, FiniteSets, TLC

VARIABLES
    \* ---- chunk_text: arguments, locals, position ----
    text,        \* argument text, a sequence of characters
    max_chars,   \* argument max_chars
    overlap,     \* argument overlap
    impl,        \* which implementation runs: "rag_index" or "embed_texts"
    start,       \* local start
    chunks,      \* local chunks, the list that is returned
    wins,        \* the <<start, end>> pair of every slice appended to chunks
    cpc,         \* position: "entry", "walk" (the while loop), "done"; "idle" elsewhere
    \* ---- search / rag_search / qa ----
    INDEX,       \* the index searched: NoIndex or [vectors, chunks, metas]
    entry,       \* entry point of the last call
    qvec,        \* embedding of the query
    k,           \* argument k (top_k for /qa)
    top_idx,     \* local top_idx / top: index positions selected
    results,     \* the returned list of {score, text, source, chunk_id}
    spc,         \* "idle", "returned" or "http503"; "off" elsewhere
    \* ---- validate_schema ----
    payload,     \* argument payload, a tagged JSON value
    issues,      \* the returned list of issues
    vpc,         \* "entry" or "done"; "idle" elsewhere
    \* ---- html_to_text ----
    doc,         \* the parsed markup: the sequence of nodes of the document
    himpl,       \* which implementation runs: "html_to_text" or "rag_index"
    out,         \* the returned text
    hpc,         \* "entry" or "done"; "idle" elsewhere
    \* ---- build_index_from_dir, load_index, server start ----
    env,         \* the process environment (os.getenv)
    files,       \* the *.html files of data_dir, in the order glob lists them
    store,       \* the file at index_path
    bimpl,       \* which build runs: "rag_index" or "embed_texts"
    built,       \* what build_index_from_dir returned
    loaded,      \* what rag_index.load_index returned
    calls,       \* the requests sent to the embeddings / chat API, in order
    bpc,         \* build: "ready", "built" or "error"; "idle" elsewhere
    lpc,         \* load_index: "ready", "loaded" or "notfound"; "idle" elsewhere
    \* ---- the server's request handlers ----
    req          \* per worker thread: the request in progress and its response

cvars == <<text, max_chars, overlap, impl, start, chunks, wins, cpc>>
svars == <<INDEX, entry, qvec, k, top_idx, results, spc>>
vvars == <<payload, issues, vpc>>
hvars == <<doc, himpl, out, hpc>>
bvars == <<env, files, store, bimpl, built, loaded, calls, bpc, lpc>>
wvars == <<req>>
vars == <<text, max_chars, overlap, impl, start, chunks, wins, cpc,
          INDEX, entry, qvec, k, top_idx, results, spc,
          payload, issues, vpc,
          doc, himpl, out, hpc,
          env, files, store, bimpl, built, loaded, calls, bpc, lpc,
          req>>

Min(a, b) == IF a <= b THEN a ELSE b
Max(a, b) == IF a >= b THEN a ELSE b

(***************************************************************************)
(* Bounds of the checked input space                                       *)
(***************************************************************************)
MaxLen == 6        \* longest text given to chunk_text
MaxMaxChars == 3   \* largest max_chars given to chunk_text
MaxOverlap == 3    \* largest overlap given to chunk_text

Alphabet == {"a", "b"}
Impls == {"rag_index", "embed_texts"}

RECURSIVE SeqsUpTo(_, _)
SeqsUpTo(S, n) ==
    IF n = 0 THEN {<<>>}
    ELSE LET shorter == SeqsUpTo(S, n - 1)
         IN  shorter \cup {Append(s, c) : s \in {t \in shorter : Len(t) = n - 1}, c \in S}

Texts == SeqsUpTo(Alphabet, MaxLen)

(***************************************************************************)
(* Idle values of the components a specification does not exercise         *)
(***************************************************************************)
NoIndex == [vectors |-> <<>>, chunks |-> <<>>, metas |-> <<>>, _vecs |-> <<>>, loaded |-> FALSE]

ChunkIdle ==
    /\ text = <<>> /\ max_chars = 0 /\ overlap = 0 /\ impl = "rag_index"
    /\ start = 0 /\ chunks = <<>> /\ wins = <<>> /\ cpc = "idle"

SearchIdle ==
    /\ INDEX = NoIndex /\ entry = "none" /\ qvec = <<>> /\ k = 0
    /\ top_idx = <<>> /\ results = <<>> /\ spc = "off"

ValidateIdle ==
    /\ payload = [t |-> "null", v |-> <<>>] /\ issues = <<>> /\ vpc = "idle"

HtmlIdle ==
    /\ doc = <<>> /\ himpl = "rag_index" /\ out = <<>> /\ hpc = "idle"

NoFile == [exists |-> FALSE, json |-> FALSE, data |-> <<>>]
Nothing == [vectors |-> <<>>, chunks |-> <<>>, metas |-> <<>>]

BuildIdle ==
    /\ env = <<>> /\ files = <<>> /\ store = NoFile /\ bimpl = "rag_index"
    /\ built = Nothing /\ loaded = Nothing /\ calls = <<>>
    /\ bpc = "idle" /\ lpc = "idle"

ServerIdle == req = <<>>

(***************************************************************************)
(* chunk_text                                                              *)
(***************************************************************************)
\* text[s:e] for 0 <= s <= e <= len(text)
Slice(t, s, e) == SubSeq(t, s + 1, e)

\* `if len(text) <= max_chars: return [text]`
EarlyReturnStrict(t, m) == Len(t) < m
EarlyReturn(t, m) == Len(t) <= m

\* `end = min(len(text), start + max_chars)`
WindowEnd(t, s, m) == Min(Len(t), s + m)

\* the break test: `end >= len(text)` in rag_index, `end == len(text)` in embed_texts
AtEnd(im, t, e) == IF im = "rag_index" THEN e >= Len(t) ELSE e = Len(t)

\* `start = max(0, end - overlap)`
NextStartNoOverlap(e, o) == Max(0, e)
NextStartGap(e, o) == Max(0, e - o + 1)
NextStartStalled(e, o) == Max(0, e - o - 1)
NextStart(e, o) == Max(0, e - o)

\* The walk of a call whose start never advances appends forever; the model
\* follows it for one slice more than any advancing walk can produce.
WalkCap(t) == Len(t) + 1

InitChunk ==
    /\ text \in Texts
    /\ max_chars \in 0..MaxMaxChars
    /\ overlap \in (-1)..MaxOverlap
    /\ impl \in Impls
    /\ start = 0 /\ chunks = <<>> /\ wins = <<>> /\ cpc = "entry"
    /\ SearchIdle /\ ValidateIdle
    /\ HtmlIdle /\ BuildIdle /\ ServerIdle

\* lines 47-50 (26-29): the early return, or the initialisation of the walk
ChunkEntry ==
    /\ cpc = "entry"
    /\ IF EarlyReturn(text, max_chars)
       THEN /\ chunks' = <<text>>
            /\ wins' = << <<0, Len(text)>> >>
            /\ cpc' = "done"
       ELSE /\ chunks' = <<>>
            /\ wins' = <<>>
            /\ cpc' = "walk"
    /\ start' = 0
    /\ UNCHANGED <<text, max_chars, overlap, impl>>
    /\ UNCHANGED svars /\ UNCHANGED vvars
    /\ UNCHANGED hvars /\ UNCHANGED bvars /\ UNCHANGED wvars

\* lines 51-56 (30-34): one iteration of `while start < len(text)`
ChunkWalk ==
    /\ cpc = "walk"
    /\ start < Len(text)
    /\ Len(chunks) < WalkCap(text)
    /\ LET end == WindowEnd(text, start, max_chars)
       IN  /\ chunks' = Append(chunks, Slice(text, start, end))
           /\ wins' = Append(wins, <<start, end>>)
           /\ IF AtEnd(impl, text, end)
              THEN cpc' = "done" /\ start' = start
              ELSE cpc' = "walk" /\ start' = NextStart(end, overlap)
    /\ UNCHANGED <<text, max_chars, overlap, impl>>
    /\ UNCHANGED svars /\ UNCHANGED vvars
    /\ UNCHANGED hvars /\ UNCHANGED bvars /\ UNCHANGED wvars

\* lines 51, 57 (30, 35): the loop condition fails, `return chunks`
ChunkWalkExit ==
    /\ cpc = "walk"
    /\ ~(start < Len(text))
    /\ cpc' = "done"
    /\ UNCHANGED <<text, max_chars, overlap, impl, start, chunks, wins>>
    /\ UNCHANGED svars /\ UNCHANGED vvars
    /\ UNCHANGED hvars /\ UNCHANGED bvars /\ UNCHANGED wvars

NextChunk == ChunkEntry \/ ChunkWalk \/ ChunkWalkExit

SpecChunk == InitChunk /\ [][NextChunk]_vars

\* the precondition the chunker's contract states
ChunkPre == 0 <= overlap /\ overlap < max_chars

CeilDiv(a, b) == -((-a) \div b)

\* C3: with 0 <= overlap < max_chars, every pair of consecutive chunks shares
\* `overlap` characters: the next chunk starts exactly `overlap` characters
\* before the end of the previous one, and the last `overlap` characters of the
\* previous chunk are the first `overlap` characters of the next.
C3_Overlap ==
    (cpc = "done" /\ ChunkPre) =>
        \A i \in 1..(Len(chunks) - 1) :
            LET c == chunks[i]
                d == chunks[i + 1]
            IN  /\ Len(c) >= overlap
                /\ Len(d) >= overlap
                /\ SubSeq(c, Len(c) - overlap + 1, Len(c)) = SubSeq(d, 1, overlap)
                /\ wins[i + 1][1] = wins[i][2] - overlap

C3_Witness ==
    /\ cpc = "done" /\ ChunkPre
    /\ overlap >= 1
    /\ Len(chunks) >= 3
    /\ Len(chunks[Len(chunks)]) < max_chars
    /\ \E i, j \in 1..Len(text) : text[i] # text[j]

\* C4: with 0 <= overlap < max_chars the windows cover the text: the first
\* starts at 0, the last ends at len(text), every chunk is text[start:end] with
\* at most max_chars characters, consecutive windows leave no gap and every
\* position of the text lies in some window.
C4_Coverage ==
    (cpc = "done" /\ ChunkPre) =>
        /\ Len(chunks) >= 1
        /\ Len(wins) = Len(chunks)
        /\ wins[1][1] = 0
        /\ wins[Len(wins)][2] = Len(text)
        /\ \A i \in 1..Len(chunks) :
              /\ 0 <= wins[i][1] /\ wins[i][1] <= wins[i][2] /\ wins[i][2] <= Len(text)
              /\ chunks[i] = Slice(text, wins[i][1], wins[i][2])
              /\ Len(chunks[i]) <= max_chars
        /\ \A i \in 1..(Len(chunks) - 1) : wins[i + 1][1] <= wins[i][2]
        /\ \A p \in 0..(Len(text) - 1) :
              \E i \in 1..Len(chunks) : wins[i][1] <= p /\ p < wins[i][2]

C4_Witness ==
    /\ cpc = "done" /\ ChunkPre
    /\ Len(chunks) >= 3
    /\ Len(text) = MaxLen

\* C5 (the claim as stated): the forward walk never runs with
\* overlap >= max_chars; such a call is rejected before the walk.
C5_PreconditionEnforced ==
    cpc = "walk" => overlap < max_chars

\* C6 (the claim as stated): with 0 <= overlap < max_chars the number of
\* chunks is ceil((len(text) - overlap) / (max_chars - overlap)), for every
\* text.
C6_Original ==
    (cpc = "done" /\ ChunkPre) =>
        Len(chunks) = CeilDiv(Len(text) - overlap, max_chars - overlap)

\* C6 (amended): with 0 <= overlap < max_chars the number of chunks is
\* ceil((len(text) - overlap) / (max_chars - overlap)) when len(text) > overlap,
\* and 1 when len(text) <= overlap.
C6_Count ==
    (cpc = "done" /\ ChunkPre) =>
        Len(chunks) = IF Len(text) > overlap
                      THEN CeilDiv(Len(text) - overlap, max_chars - overlap)
                      ELSE 1

C6_Witness ==
    /\ cpc = "done" /\ ChunkPre
    /\ Len(text) > max_chars
    /\ overlap >= 1
    /\ Len(chunks) >= 3

\* C7: a text with len(text) <= max_chars comes back as the one-element list
\* [text], whatever the overlap, in both implementations.
C7_ShortText ==
    (cpc = "done" /\ Len(text) <= max_chars) => chunks = <<text>>

C7_Witness ==
    /\ cpc = "done"
    /\ impl = "embed_texts"
    /\ Len(text) = max_chars /\ Len(text) >= 1
    /\ overlap >= max_chars
    /\ chunks = <<text>>

\* chunk_text runs as straight-line code: a step that can be taken is taken
SpecChunkLive == SpecChunk /\ WF_vars(NextChunk)

\* the window starts of the walk so far grow strictly
StartsIncrease == \A i \in 1..(Len(wins) - 1) : wins[i][1] < wins[i + 1][1]

\* only the last window of a finished walk ends at len(text), and no window is
\* appended after one that does
StopsAtFirstEnd ==
    /\ \A i \in 1..(Len(wins) - 1) : wins[i][2] < Len(text)
    /\ (Len(wins) > 0 /\ wins[Len(wins)][2] = Len(text)) => cpc = "done"

\* C21: with 0 <= overlap < max_chars (so max_chars >= 1) chunk_text
\* terminates for every text: the window start grows strictly at every
\* iteration of the walk, and the walk stops at the first window whose end is
\* len(text).
C21_Terminates ==
    /\ [](ChunkPre => (StartsIncrease /\ StopsAtFirstEnd))
    /\ ChunkPre ~> (cpc = "done")

C21_Witness ==
    /\ cpc = "done" /\ ChunkPre
    /\ overlap = max_chars - 1 /\ overlap >= 1
    /\ Len(wins) >= 4
    /\ wins[Len(wins)][2] = Len(text)

(***************************************************************************)
(* search (rag_index.py), rag_search and /qa (server.py)                   *)
(***************************************************************************)
MaxChunks == 3     \* largest number of chunks in an index
MaxK == 4          \* k ranges over -MaxK..MaxK
EmbDim == 2        \* dimensionality of the embedding vectors

\* Embedding vectors.  Every vector of Vec has the same norm, so the division
\* by the norm (rag_index.py:79-80, 99; server.py:145-146, 162) scales all
\* scores by one positive factor; scores are kept in units of 1/EmbDim.
Vec == [1..EmbDim -> {-1, 1}]

RECURSIVE DotFrom(_, _, _)
DotFrom(u, v, i) == IF i > EmbDim THEN 0 ELSE u[i] * v[i] + DotFrom(u, v, i + 1)

\* `sims = (vecs @ q).tolist()`: sims[i] is the dot product of row i with q
Sims(vecs, q) == [i \in 1..Len(vecs) |-> DotFrom(vecs[i], q, 1)]

\* The place sorted(..., reverse=True) gives position i among the positions
\* already placed: behind every position whose score is greater or equal
\* (Python's sort is stable, also with reverse=True).
InsertAtUnstable(sorted, sims, i) ==
    LET before == {j \in 1..Len(sorted) : sims[sorted[j]] > sims[i]}
    IN  Cardinality(before)
InsertAt(sorted, sims, i) ==
    LET before == {j \in 1..Len(sorted) : sims[sorted[j]] >= sims[i]}
    IN  Cardinality(before)

RECURSIVE SortedFrom(_, _, _)
SortedFrom(sorted, sims, i) ==
    IF i > Len(sims) THEN sorted
    ELSE LET p == InsertAt(sorted, sims, i)
         IN  SortedFrom(SubSeq(sorted, 1, p) \o <<i>> \o SubSeq(sorted, p + 1, Len(sorted)),
                        sims, i + 1)

\* `sorted(range(len(sims)), key=lambda i: sims[i], reverse=True)`
SortedDesc(sims) == SortedFrom(<<>>, sims, 1)

\* the slice `[:k]` of Python: a negative k counts from the end
SliceTo(s, kk) ==
    IF kk >= 0 THEN SubSeq(s, 1, Min(kk, Len(s)))
    ELSE SubSeq(s, 1, Max(0, Len(s) + kk))

\* `top_idx = sorted(...)[:k]`
TopIdx(sims, kk) == SliceTo(SortedDesc(sims), kk)

\* the result list built by the loop over top_idx
Out(index, sims, top) ==
    [j \in 1..Len(top) |->
        [score    |-> sims[top[j]],
         text     |-> index.chunks[top[j]],
         source   |-> index.metas[top[j]].source,
         chunk_id |-> index.metas[top[j]].chunk_id]]

\* An index of n chunks as build writes it for one document: chunk i has
\* chunk_id i - 1 (0-based) and its own text.
IndexOf(vecs) ==
    [vectors |-> vecs,
     chunks  |-> [i \in 1..Len(vecs) |-> [j \in 1..i |-> "a"]],
     metas   |-> [i \in 1..Len(vecs) |-> [source |-> "a.html", chunk_id |-> i - 1]],
     _vecs   |-> vecs,
     loaded  |-> TRUE]

Indexes == {IndexOf(vecs) : vecs \in UNION {[1..n -> Vec] : n \in 1..MaxChunks}}

InitSearch ==
    /\ INDEX \in Indexes \cup {NoIndex}
    /\ entry = "none" /\ qvec = <<>> /\ k = 0
    /\ top_idx = <<>> /\ results = <<>> /\ spc = "idle"
    /\ ChunkIdle /\ ValidateIdle
    /\ HtmlIdle /\ BuildIdle /\ ServerIdle

\* rag_index.search(index, query, k), lines 96-111
Search ==
    /\ INDEX.loaded
    /\ \E q \in Vec, kk \in (-MaxK)..MaxK :
          LET sims == Sims(INDEX.vectors, q)
              top  == TopIdx(sims, kk)
          IN  /\ qvec' = q /\ k' = kk
              /\ top_idx' = top
              /\ results' = Out(INDEX, sims, top)
    /\ entry' = "search"
    /\ spc' = "returned"
    /\ UNCHANGED INDEX
    /\ UNCHANGED cvars /\ UNCHANGED vvars
    /\ UNCHANGED hvars /\ UNCHANGED bvars /\ UNCHANGED wvars

\* the body of server.rag_search(q, k), lines 166-183
RagSearchBody(q, kk) ==
    IF ~INDEX.loaded
    THEN /\ spc' = "http503"
         /\ top_idx' = <<>> /\ results' = <<>>
    ELSE LET sims == Sims(INDEX._vecs, q)
             top  == TopIdx(sims, kk)
         IN  /\ spc' = "returned"
             /\ top_idx' = top
             /\ results' = Out(INDEX, sims, top)

\* server.rag_search called directly
RagSearch ==
    /\ \E q \in Vec, kk \in (-MaxK)..MaxK :
          /\ qvec' = q /\ k' = kk
          /\ RagSearchBody(q, kk)
    /\ entry' = "rag_search"
    /\ UNCHANGED INDEX
    /\ UNCHANGED cvars /\ UNCHANGED vvars
    /\ UNCHANGED hvars /\ UNCHANGED bvars /\ UNCHANGED wvars

\* POST /qa, lines 272-288: QARequest.top_k is any integer; sources=retrieved
Qa ==
    /\ \E q \in Vec, top_k \in (-MaxK)..MaxK :
          /\ qvec' = q /\ k' = top_k
          /\ IF ~INDEX.loaded
             THEN /\ spc' = "http503"
                  /\ top_idx' = <<>> /\ results' = <<>>
             ELSE RagSearchBody(q, top_k)
    /\ entry' = "qa"
    /\ UNCHANGED INDEX
    /\ UNCHANGED cvars /\ UNCHANGED vvars
    /\ UNCHANGED hvars /\ UNCHANGED bvars /\ UNCHANGED wvars

NextSearch == Search \/ RagSearch \/ Qa

SpecSearch == InitSearch /\ [][NextSearch]_vars

\* C1 (the claim as stated): whatever integer k a search entry point accepts,
\* the number of results is min(k, number of chunks in the index).
C1_ResultCount ==
    spc = "returned" => Len(results) = Min(k, Len(INDEX.chunks))

\* C2: for k >= 0 the results are the first k chunks in the order of
\* descending score with ties in index order: scores do not increase, equal
\* scores come in increasing index position, every chunk left out scores no
\* more than any returned chunk and, if it scores the same, has a higher index
\* position.
C2_TopK ==
    (spc = "returned" /\ k >= 0) =>
        LET n    == Len(INDEX.chunks)
            sims == Sims(INDEX.vectors, qvec)
            m    == Len(results)
            pos(j) == results[j].chunk_id + 1
            in   == {pos(j) : j \in 1..m}
        IN  /\ m = Min(k, n)
            /\ in \subseteq 1..n
            /\ Cardinality(in) = m
            /\ \A j \in 1..m :
                  /\ top_idx[j] = pos(j)
                  /\ results[j].score = sims[pos(j)]
                  /\ results[j].text = INDEX.chunks[pos(j)]
                  /\ results[j].source = INDEX.metas[pos(j)].source
            /\ \A i, j \in 1..m :
                  i < j => /\ results[i].score >= results[j].score
                           /\ (results[i].score = results[j].score => pos(i) < pos(j))
            /\ \A p \in (1..n) \ in : \A j \in 1..m :
                  /\ sims[p] <= results[j].score
                  /\ (sims[p] = results[j].score => p > pos(j))

C2_Witness ==
    /\ spc = "returned"
    /\ entry = "rag_search"
    /\ k = 2
    /\ Len(INDEX.chunks) = 3
    /\ Len(results) = 2
    /\ results[1].score = results[2].score
    /\ \E p \in 1..3 : /\ p # results[1].chunk_id + 1 /\ p # results[2].chunk_id + 1
                       /\ DotFrom(INDEX.vectors[p], qvec, 1) = results[1].score

(***************************************************************************)
(* validate_schema (app_streamlit.py)                                      *)
(*                                                                         *)
(* A JSON value is a tagged record: [t |-> "dict", v |-> key -> value],    *)
(* [t |-> "str", v |-> sequence of characters], [t |-> "null"] (None) or   *)
(* [t |-> "list"] (a payload that is no mapping).  Keys and key-paths are  *)
(* strings, so that a key may itself contain a dot.                        *)
(***************************************************************************)
D(items) == [t |-> "dict", v |-> items]
S(chars) == [t |-> "str", v |-> chars]
Null == [t |-> "null", v |-> <<>>]
NotAMapping == [t |-> "list", v |-> <<>>]
Absent == [t |-> "absent", v |-> <<>>]     \* marks a key left out of a dict

\* the dict with the keys of f that are not marked Absent
MkDict(f) == D([key \in {x \in DOMAIN f : f[x].t # "absent"} |-> f[key]])

Leaf == S(<<>>)
DateTemplate == D([day |-> Leaf, month |-> Leaf, year |-> Leaf])

REQUIRED_SCHEMA ==
    D([lastName |-> Leaf, firstName |-> Leaf, idNumber |-> Leaf, gender |-> Leaf,
       dateOfBirth |-> DateTemplate,
       address |-> D([street |-> Leaf, houseNumber |-> Leaf, entrance |-> Leaf,
                      apartment |-> Leaf, city |-> Leaf, postalCode |-> Leaf,
                      poBox |-> Leaf]),
       landlinePhone |-> Leaf, mobilePhone |-> Leaf, jobType |-> Leaf,
       dateOfInjury |-> DateTemplate,
       timeOfInjury |-> Leaf, accidentLocation |-> Leaf, accidentAddress |-> Leaf,
       accidentDescription |-> Leaf, injuredBodyPart |-> Leaf, signature |-> Leaf,
       formFillingDate |-> DateTemplate,
       formReceiptDateAtClinic |-> DateTemplate,
       medicalInstitutionFields |-> D([healthFundMember |-> Leaf,
                                       natureOfAccident |-> Leaf,
                                       medicalDiagnoses |-> Leaf])])

\* `for date_key in [...]`, line 172
DateKeys == {"dateOfBirth", "dateOfInjury", "formFillingDate", "formReceiptDateAtClinic"}
DateFields == {"day", "month", "year"}

IdLen == 9         \* `len(idn) != 9`
DayWidth == 2      \* `len(d) == 2`
MonthWidth == 2    \* `len(m) == 2`
YearWidth == 4     \* `len(y) == 4`
Width(f) == CASE f = "day" -> DayWidth [] f = "month" -> MonthWidth [] f = "year" -> YearWidth

\* Characters: ASCII digits, a digit outside ASCII (ARABIC-INDIC DIGIT THREE)
\* and a letter.  str.isdigit() is true of every Unicode digit.
AsciiDigits == {"0", "1", "2", "3", "4", "5", "6", "7", "8", "9"}
IsDigitChar(c) == c \in AsciiDigits \cup {"U+0663"}

\* `s.isdigit()`: non-empty and every character a digit
isdigit(s) == Len(s) > 0 /\ \A i \in 1..Len(s) : IsDigitChar(s[i])

\* truth value of a JSON value in `x or ""`
Falsy(x) ==
    CASE x.t = "null" -> TRUE
      [] x.t = "str"  -> Len(x.v) = 0
      [] x.t = "dict" -> DOMAIN x.v = {}
      [] OTHER        -> FALSE

\* `str(x or "")`; the text of a non-empty dict or list starts with a bracket
PyStr(x) ==
    IF Falsy(x) THEN <<>>
    ELSE IF x.t = "str" THEN x.v
    ELSE <<"{", "}">>

\* `d.get(key, default)`
Get(d, key, default) == IF key \in DOMAIN d THEN d[key] ELSE default

\* deep_keys(d, prefix), lines 132-140; the list is only ever used as a set
RECURSIVE deep_keys(_, _)
deep_keys(d, prefix) ==
    UNION { LET path == IF prefix # "" THEN prefix \o "." \o key ELSE key
            IN  IF d[key].t = "dict" THEN deep_keys(d[key].v, path) ELSE {path}
          : key \in DOMAIN d }

Issue(kind, label, paths) == [kind |-> kind, label |-> label, paths |-> paths]

\* lines 146-153: the shape issues (the path lists are sorted, kept as sets here)
ShapeIssues(pl) ==
    LET required_paths == deep_keys(REQUIRED_SCHEMA.v, "")
        got_paths == IF pl.t = "dict" THEN deep_keys(pl.v, "") ELSE {}
        missing == required_paths \ got_paths
        extras  == got_paths \ required_paths
    IN  (IF missing # {} THEN <<Issue("missing", "", missing)>> ELSE <<>>)
        \o (IF extras # {} THEN <<Issue("extras", "", extras)>> ELSE <<>>)

\* lines 156-158
IdIssues(pl) ==
    LET idn == PyStr(Get(pl.v, "idNumber", Leaf))
    IN  IF Len(idn) > 0 /\ (~isdigit(idn) \/ Len(idn) # IdLen)
        THEN <<Issue("idNumber", "idNumber", {})>>
        ELSE <<>>

\* check_date(node, label), lines 160-170
check_date(node, label) ==
    LET dd == PyStr(Get(node, "day", Leaf))
        mm == PyStr(Get(node, "month", Leaf))
        yy == PyStr(Get(node, "year", Leaf))
    IN  IF Len(dd) > 0 \/ Len(mm) > 0 \/ Len(yy) > 0
        THEN (IF ~(Len(dd) = DayWidth /\ isdigit(dd))
              THEN <<Issue("date", label \o ".day", {})>> ELSE <<>>)
             \o (IF ~(Len(mm) = MonthWidth /\ isdigit(mm))
                 THEN <<Issue("date", label \o ".month", {})>> ELSE <<>>)
             \o (IF ~(Len(yy) = YearWidth /\ isdigit(yy))
                 THEN <<Issue("date", label \o ".year", {})>> ELSE <<>>)
        ELSE <<>>

\* line 173: the node handed to check_date
DateNode(pl, date_key) ==
    IF date_key \in DOMAIN pl.v /\ pl.v[date_key].t = "dict" THEN pl.v[date_key].v ELSE <<>>

\* validate_schema(payload), lines 143-176
validate_schema(pl) ==
    ShapeIssues(pl)
    \o (IF pl.t = "dict"
        THEN IdIssues(pl)
             \o check_date(DateNode(pl, "dateOfBirth"), "dateOfBirth")
             \o check_date(DateNode(pl, "dateOfInjury"), "dateOfInjury")
             \o check_date(DateNode(pl, "formFillingDate"), "formFillingDate")
             \o check_date(DateNode(pl, "formReceiptDateAtClinic"), "formReceiptDateAtClinic")
        ELSE <<>>)

(***************************************************************************)
(* The payloads validated: the template's shape with one idNumber value,   *)
(* one date group varied over every combination of sub-field values, and   *)
(* one change of shape.                                                    *)
(***************************************************************************)
Digits(n) == [i \in 1..n |-> "1"]

IdValues ==
    {Absent, Null, S(<<>>), S(Digits(IdLen - 1)), S(Digits(IdLen)), S(Digits(IdLen + 1)),
     S(Digits(IdLen - 1) \o <<"x">>), S(Digits(IdLen - 1) \o <<"U+0663">>)}

FieldValues(w) ==
    {Absent, S(<<>>), S(Digits(w - 1)), S(Digits(w)), S(Digits(w + 1)),
     S(Digits(w - 1) \o <<"x">>)}

DateNodes ==
    {MkDict([day |-> dv, month |-> mv, year |-> yv]) :
        dv \in FieldValues(DayWidth), mv \in FieldValues(MonthWidth),
        yv \in FieldValues(YearWidth)}
    \cup {S(<<"1", "/", "1">>)}

OtherDateNodes ==
    {DateTemplate,
     D([day |-> S(Digits(DayWidth)), month |-> S(Digits(MonthWidth)),
        year |-> S(Digits(YearWidth))])}

Shapes == {"template", "dropLeaf", "dropNested", "extraKey", "flatDotted",
           "emptyDict", "nestedAsLeaf", "notAMapping"}

Without(d, key) == [x \in DOMAIN d \ {key} |-> d[x]]

BasePayload(idv, gv, node, other) ==
    MkDict([key \in DOMAIN REQUIRED_SCHEMA.v |->
              IF key = "idNumber" THEN idv
              ELSE IF key = gv THEN node
              ELSE IF key \in DateKeys THEN other
              ELSE REQUIRED_SCHEMA.v[key]])

Reshape(pl, shape) ==
    CASE shape = "template"     -> pl
      [] shape = "dropLeaf"     -> D(Without(pl.v, "gender"))
      [] shape = "dropNested"   ->
            D([pl.v EXCEPT !["address"] = D(Without(pl.v["address"].v, "city"))])
      [] shape = "extraKey"     -> D(("comment" :> Leaf) @@ pl.v)
      [] shape = "flatDotted"   ->
            D(("medicalInstitutionFields.healthFundMember" :> Leaf)
              @@ ("medicalInstitutionFields.natureOfAccident" :> Leaf)
              @@ ("medicalInstitutionFields.medicalDiagnoses" :> Leaf)
              @@ Without(pl.v, "medicalInstitutionFields"))
      [] shape = "emptyDict"    -> D([pl.v EXCEPT !["gender"] = D(<<>>)])
      [] shape = "nestedAsLeaf" -> D([pl.v EXCEPT !["address"] = Leaf])
      [] shape = "notAMapping"  -> NotAMapping

Payloads ==
    {Reshape(BasePayload(idv, gv, node, other), shape) :
        idv \in IdValues, gv \in DateKeys, node \in DateNodes,
        other \in OtherDateNodes, shape \in Shapes}

InitValidate ==
    /\ payload \in Payloads
    /\ issues = <<>>
    /\ vpc = "entry"
    /\ ChunkIdle /\ SearchIdle
    /\ HtmlIdle /\ BuildIdle /\ ServerIdle

Validate ==
    /\ vpc = "entry"
    /\ issues' = validate_schema(payload)
    /\ vpc' = "done"
    /\ UNCHANGED payload
    /\ UNCHANGED cvars /\ UNCHANGED svars
    /\ UNCHANGED hvars /\ UNCHANGED bvars /\ UNCHANGED wvars

NextValidate == Validate

SpecValidate == InitValidate /\ [][NextValidate]_vars

(***************************************************************************)
(* The format rules as the specification words them                        *)
(***************************************************************************)
\* the text of a sub-field: empty when the key is missing, null or empty
TextOf(d, key) == IF key \in DOMAIN d /\ d[key].t = "str" THEN d[key].v ELSE <<>>

WellFormed(s, w) == Len(s) = w /\ \A i \in 1..Len(s) : s[i] \in AsciiDigits

\* idNumber: if present and non-empty, exactly 9 ASCII digits
IdRuleHolds(pl) ==
    LET s == TextOf(pl.v, "idNumber") IN Len(s) = 0 \/ WellFormed(s, IdLen)

\* a sub-field of a date group is present and malformed
Malformed(pl, g, f) ==
    LET s == TextOf(DateNode(pl, g), f) IN Len(s) > 0 /\ ~WellFormed(s, Width(f))

AnyNonEmpty(pl, g) == \E f \in DateFields : Len(TextOf(DateNode(pl, g), f)) > 0

IssueCount(kind, label) ==
    Cardinality({i \in 1..Len(issues) : issues[i].kind = kind /\ issues[i].label = label})

\* C8 (the claim as stated): the issue list is empty exactly when the payload's
\* key-paths equal the template's and the idNumber rule and the four date
\* rules hold, an empty or missing date sub-field being no error.
C8_EmptyIffValid ==
    vpc = "done" =>
        (issues = <<>>
         <=> /\ payload.t = "dict"
             /\ deep_keys(payload.v, "") = deep_keys(REQUIRED_SCHEMA.v, "")
             /\ IdRuleHolds(payload)
             /\ \A g \in DateKeys : \A f \in DateFields : ~Malformed(payload, g, f))

\* C9 (the claim as stated): in a date group with some non-empty sub-field,
\* each sub-field has exactly one issue if it is present and malformed and no
\* issue if it is missing or empty.
C9_PartialDates ==
    (vpc = "done" /\ payload.t = "dict") =>
        \A g \in DateKeys : AnyNonEmpty(payload, g) =>
            \A f \in DateFields :
                IssueCount("date", g \o "." \o f) = IF Malformed(payload, g, f) THEN 1 ELSE 0

\* C10 (the claim as stated): the idNumber issue is reported exactly when
\* idNumber is present, non-empty and not a string of exactly 9 ASCII digits.
C10_IdNumber ==
    (vpc = "done" /\ payload.t = "dict") =>
        (IssueCount("idNumber", "idNumber") = 1 <=> ~IdRuleHolds(payload))

\* the template keys that map to a nested mapping
NestedKeys == {key \in DOMAIN REQUIRED_SCHEMA.v : REQUIRED_SCHEMA.v[key].t = "dict"}

\* the payload is a mapping that nests each of these keys as the template does
SameNesting(pl) ==
    /\ pl.t = "dict"
    /\ \A key \in NestedKeys :
          /\ key \in DOMAIN pl.v
          /\ pl.v[key].t = "dict"
          /\ DOMAIN pl.v[key].v = DOMAIN REQUIRED_SCHEMA.v[key].v

\* C22 (the claim as stated): when validate_schema reports neither missing nor
\* extra key-paths, every template key that maps to a nested mapping is a
\* nested mapping with the same sub-keys in the payload; a flat key that
\* contains a dot does not stand for the nested object.
C22_SameNesting ==
    (vpc = "done" /\ IssueCount("missing", "") = 0 /\ IssueCount("extras", "") = 0)
        => SameNesting(payload)

(***************************************************************************)
(* html_to_text (html_to_text.py:7-23 and rag_index.py:26-43)              *)
(*                                                                         *)
(* The input is the tree BeautifulSoup parses, here the sequence of the    *)
(* nodes of the body: a text node, a script/style/noscript element with    *)
(* its content, or a table with its rows of cells (a cell holds one text   *)
(* node).  Strings are sequences of the characters "x", " " and "\n".      *)
(***************************************************************************)
MaxTextLen == 5    \* longest text node of a one-node document
MaxShortLen == 1   \* longest text node next to another node
MaxCells == 2      \* most cells in a row
MaxRows == 2       \* most rows in a table

Chars == {"x", " ", "\n"}
HtmlImpls == {"html_to_text", "rag_index"}

TextNode(s) == [kind |-> "text", s |-> s, rows |-> <<>>]
ScriptNode(s) == [kind |-> "script", s |-> s, rows |-> <<>>]
TableNode(rows) == [kind |-> "table", s |-> <<>>, rows |-> rows]

\* whitespace, as str.strip() sees it
IsSpace(c) == c \in {" ", "\n"}

\* `s.strip()`
Strip(s) ==
    LET solid == {i \in 1..Len(s) : ~IsSpace(s[i])}
    IN  IF solid = {} THEN <<>>
        ELSE SubSeq(s, CHOOSE i \in solid : \A j \in solid : i <= j,
                       CHOOSE i \in solid : \A j \in solid : i >= j)

\* `sep.join(parts)`
RECURSIVE Join(_, _)
Join(sep, parts) ==
    IF Len(parts) = 0 THEN <<>>
    ELSE IF Len(parts) = 1 THEN parts[1]
    ELSE parts[1] \o sep \o Join(sep, Tail(parts))

\* the elements of a sequence that are not the empty string, in order
RECURSIVE NonEmpty(_)
NonEmpty(parts) ==
    IF Len(parts) = 0 THEN <<>>
    ELSE (IF Len(parts[1]) > 0 THEN <<parts[1]>> ELSE <<>>) \o NonEmpty(Tail(parts))

\* `c.get_text(" ", strip=True)` of a cell with one text node
CellText(c) == Strip(c)

\* the separator of `" | ".join(cells)`
CellSepBare == <<"|">>
CellSep == <<" ", "|", " ">>

\* `" | ".join(cells)`
RowLine(cells) == Join(CellSep, [i \in 1..Len(cells) |-> CellText(cells[i])])

\* the loop over table.find_all("tr"): `if cells: rows.append(...)`
RECURSIVE RowLines(_)
RowLines(rows) ==
    IF Len(rows) = 0 THEN <<>>
    ELSE (IF Len(rows[1]) > 0 THEN <<RowLine(rows[1])>> ELSE <<>>) \o RowLines(Tail(rows))

\* the string put in the table's place: `"\n".join(rows) + "\n"`
TableString(rows) == Join(<<"\n">>, RowLines(rows)) \o <<"\n">>

\* the strings left in the tree once script/style/noscript are decomposed
\* and every table is replaced
RECURSIVE TreeStrings(_)
TreeStrings(nodes) ==
    IF Len(nodes) = 0 THEN <<>>
    ELSE (CASE nodes[1].kind = "script" -> <<>>
            [] nodes[1].kind = "table"  -> <<TableString(nodes[1].rows)>>
            [] OTHER                    -> <<nodes[1].s>>)
         \o TreeStrings(Tail(nodes))

\* `soup.get_text("\n", strip=True)`: every string stripped, the empty ones
\* skipped, the rest joined with "\n"
GetText(nodes) ==
    LET strs == TreeStrings(nodes)
    IN  Join(<<"\n">>, NonEmpty([i \in 1..Len(strs) |-> Strip(strs[i])]))

\* the length of the run of "\n" that starts at position i
RunLen(s, i) == Cardinality({j \in i..Len(s) : \A m \in i..j : s[m] = "\n"})

\* `re.sub(r"\n{n,}", repl, s)` from position i on
RECURSIVE CollapseFrom(_, _, _, _)
CollapseFrom(s, i, n, repl) ==
    IF i > Len(s) THEN <<>>
    ELSE IF s[i] # "\n" THEN <<s[i]>> \o CollapseFrom(s, i + 1, n, repl)
    ELSE LET r == RunLen(s, i)
         IN  (IF r >= n THEN repl ELSE SubSeq(s, i, i + r - 1))
             \o CollapseFrom(s, i + r, n, repl)

\* `s.splitlines()`
RECURSIVE SplitLines(_)
SplitLines(s) ==
    LET nl == {i \in 1..Len(s) : s[i] = "\n"}
    IN  IF Len(s) = 0 THEN <<>>
        ELSE IF nl = {} THEN <<s>>
        ELSE LET p == CHOOSE i \in nl : \A j \in nl : i <= j
             IN  <<SubSeq(s, 1, p - 1)>> \o SplitLines(SubSeq(s, p + 1, Len(s)))

\* html_to_text.py:21-23: `re.sub(r"\n{2,}", "\n", text)`, returned as it is
html_to_text_script(nodes) == CollapseFrom(GetText(nodes), 1, 2, <<"\n">>)

\* rag_index.py:40-43: `re.sub(r"\n{3,}", "\n\n", text)`, then the lines that
\* are not empty once stripped, stripped, joined with "\n"
html_to_text_rag(nodes) ==
    LET t == CollapseFrom(GetText(nodes), 1, 3, <<"\n", "\n">>)
        ls == SplitLines(t)
    IN  Join(<<"\n">>, NonEmpty([i \in 1..Len(ls) |-> Strip(ls[i])]))

html_to_text(im, nodes) ==
    IF im = "rag_index" THEN html_to_text_rag(nodes) ELSE html_to_text_script(nodes)

LongTexts == SeqsUpTo(Chars, MaxTextLen)
ShortTexts == SeqsUpTo(Chars, MaxShortLen)
\* cell contents: empty, plain, whitespace only, padded, with a line break
Cells == {<<>>, <<"x">>, <<" ">>, <<" ", "x">>, <<"x", "\n", "x">>}
Rows == SeqsUpTo(Cells, MaxCells)
Tables == {TableNode(rs) : rs \in SeqsUpTo(Rows, MaxRows)}
OneRowTables == {TableNode(rs) : rs \in SeqsUpTo(Rows, 1)}
ShortNodes == {TextNode(t) : t \in ShortTexts} \cup {ScriptNode(<<"x">>)}

Docs ==
    {<<TextNode(t)>> : t \in LongTexts}
    \cup {<<n>> : n \in Tables \cup ShortNodes}
    \cup {<<n, t>> : n \in ShortNodes, t \in OneRowTables \cup ShortNodes}
    \cup {<<t, n>> : n \in ShortNodes, t \in OneRowTables}

InitHtml ==
    /\ doc \in Docs
    /\ himpl \in HtmlImpls
    /\ out = <<>>
    /\ hpc = "entry"
    /\ ChunkIdle /\ SearchIdle /\ ValidateIdle /\ BuildIdle /\ ServerIdle

HtmlToText ==
    /\ hpc = "entry"
    /\ out' = html_to_text(himpl, doc)
    /\ hpc' = "done"
    /\ UNCHANGED <<doc, himpl>>
    /\ UNCHANGED cvars /\ UNCHANGED svars /\ UNCHANGED vvars
    /\ UNCHANGED bvars /\ UNCHANGED wvars

NextHtml == HtmlToText

SpecHtml == InitHtml /\ [][NextHtml]_vars

\* the lines of a text: the pieces between its newlines
LinesOf(s) == IF Len(s) > 0 /\ s[Len(s)] = "\n" THEN SplitLines(s) \o <<<<>>>> ELSE SplitLines(s)

\* C17 (the claim as stated): in both implementations the returned text has
\* no line that is empty once stripped: no blank line, no line of whitespace
\* only, no two newlines in a row.
C17_NoBlankLine ==
    hpc = "done" => \A i \in 1..Len(LinesOf(out)) : Len(Strip(LinesOf(out)[i])) > 0

\* what the claim expects of a row: its cell texts with " | " between them
RECURSIVE PipeJoined(_)
PipeJoined(cells) ==
    IF Len(cells) = 0 THEN <<>>
    ELSE IF Len(cells) = 1 THEN Strip(cells[1])
    ELSE Strip(cells[1]) \o <<" ", "|", " ">> \o PipeJoined(Tail(cells))

\* what the claim expects of a table: a line for every row that has a cell
RECURSIVE ExpectedRows(_)
ExpectedRows(rows) ==
    IF Len(rows) = 0 THEN <<>>
    ELSE (IF Len(rows[1]) > 0 THEN <<PipeJoined(rows[1])>> ELSE <<>>)
         \o ExpectedRows(Tail(rows))

\* the lines a node contributes to the output of the implementation running
NodeLines(n) ==
    IF n.kind = "table" THEN ExpectedRows(n.rows)
    ELSE SplitLines(html_to_text(himpl, <<n>>))

RECURSIVE DocLines(_)
DocLines(nodes) ==
    IF Len(nodes) = 0 THEN <<>> ELSE NodeLines(nodes[1]) \o DocLines(Tail(nodes))

HasTable == \E i \in 1..Len(doc) : doc[i].kind = "table"

\* every cell of every table has text, and no line break inside it
PlainCells ==
    \A i \in 1..Len(doc) : \A r \in 1..Len(doc[i].rows) : \A c \in 1..Len(doc[i].rows[r]) :
        LET t == Strip(doc[i].rows[r][c])
        IN  Len(t) > 0 /\ \A j \in 1..Len(t) : t[j] # "\n"

MaxDocs == 2       \* most *.html files in data_dir
BlockChars == 100  \* characters one element of a document's text stands for

RagMaxChars == 1100      \* rag_index.chunk_text, default max_chars
ScriptMaxChars == 1200   \* embed_texts.chunk_text, default max_chars
DefaultOverlap == 200    \* default overlap of both

\* the lengths of the documents, in blocks: empty, one chunk, two, three
DocLens == {0, 5, 13, 23}

\* file names in ascending order, and the letter each file's text is made of
Names == <<"a.html", "b.html", "c.html", "d.html">>
Letters == <<"a", "b", "c", "d">>
Rank(name) == CHOOSE i \in 1..Len(Names) : Names[i] = name

FileOf(i, n) == [name |-> Names[i], html |-> <<TextNode([j \in 1..n |-> Letters[i]])>>]

\* what glob("*.html") may list: files with different names, in any order
Listings ==
    {fs \in UNION {[1..n -> {FileOf(i, len) : i \in 1..MaxDocs, len \in DocLens}] : n \in 0..MaxDocs} :
        \A i, j \in 1..Len(fs) : i # j => fs[i].name # fs[j].name}

\* `sorted(...)`: the place of file f among the files already sorted
FilePlaceUnsorted(sorted, f) == Len(sorted)
FilePlace(sorted, f) == Cardinality({j \in 1..Len(sorted) : Rank(sorted[j].name) <= Rank(f.name)})

RECURSIVE SortFrom(_, _, _)
SortFrom(sorted, fs, i) ==
    IF i > Len(fs) THEN sorted
    ELSE LET p == FilePlace(sorted, fs[i])
         IN  SortFrom(SubSeq(sorted, 1, p) \o <<fs[i]>> \o SubSeq(sorted, p + 1, Len(sorted)),
                      fs, i + 1)

\* `files = sorted(pdir.glob("*.html"))`
SortedFiles(fs) == SortFrom(<<>>, fs, 1)

\* `if not files: raise RuntimeError(...)`
BuildRaisesNever(fs) == FALSE
BuildRaises(fs) == Len(fs) = 0

\* the forward walk of chunk_text from start s, as one value
RECURSIVE WalkFrom(_, _, _, _, _)
WalkFrom(im, t, s, m, o) ==
    IF ~(s < Len(t)) THEN <<>>
    ELSE LET e == WindowEnd(t, s, m)
         IN  <<Slice(t, s, e)>>
             \o (IF AtEnd(im, t, e) THEN <<>> ELSE WalkFrom(im, t, NextStart(e, o), m, o))

\* chunk_text(text, max_chars, overlap) as one value
chunk_text(im, t, m, o) == IF EarlyReturn(t, m) THEN <<t>> ELSE WalkFrom(im, t, 0, m, o)

\* `chunk_text(txt)`: the defaults of the implementation, in blocks
DefaultMax(im) == (IF im = "rag_index" THEN RagMaxChars ELSE ScriptMaxChars) \div BlockChars
DefaultOv == DefaultOverlap \div BlockChars

\* rag_index.py uses its own html_to_text, embed_texts.py imports html_to_text.py
HtmlImplOf(im) == IF im = "rag_index" THEN "rag_index" ELSE "html_to_text"

\* `chunk_text(html_to_text(html))` of one file
DocChunks(im, f) == chunk_text(im, html_to_text(HtmlImplOf(im), f.html), DefaultMax(im), DefaultOv)

\* `for i, ch in enumerate(chunks)`: the metas of one file
DocMetasFromOne(f, n) == [i \in 1..n |-> [source |-> f.name, chunk_id |-> i]]
DocMetas(f, n) == [i \in 1..n |-> [source |-> f.name, chunk_id |-> i - 1]]

RECURSIVE AllChunks(_, _)
AllChunks(im, fs) ==
    IF Len(fs) = 0 THEN <<>> ELSE DocChunks(im, fs[1]) \o AllChunks(im, Tail(fs))

RECURSIVE Metas(_, _)
Metas(im, fs) ==
    IF Len(fs) = 0 THEN <<>>
    ELSE DocMetas(fs[1], Len(DocChunks(im, fs[1]))) \o Metas(im, Tail(fs))

\* os.getenv(name, default)
Unset == "<unset>"
Getenv(e, name, default) == IF e[name] = Unset THEN default ELSE e[name]

\* the deployment the build embeds with: rag_index.py:20 and embed_texts.py:21
BuildDeployment(e) ==
    Getenv(e, "AZURE_OPENAI_EMBEDDINGS_DEPLOYMENT", "text-embedding-3-large")

\* server.py:59: EMB_DEP
EMB_DEP(e) ==
    Getenv(e, "AZURE_OPENAI_EMBEDDINGS_DEPLOYMENT", "text-embedding-ada-002")

\* The embeddings API, a function of the deployment and the text: one vector
\* per text.  Deployments embed into different spaces; the empty text embeds
\* to the zero vector.
Embed(dep, t) ==
    IF Len(t) = 0 THEN [i \in 1..EmbDim |-> 0]
    ELSE [i \in 1..EmbDim |->
            2 * (CASE i = 1 -> IF (t[1] = "a") = (dep = "text-embedding-3-large") THEN 1 ELSE -1
                   [] i = 2 -> IF Len(t) % 2 = 0 THEN 1 ELSE -1
                   [] OTHER -> 1)]

\* `[d.embedding for d in resp.data]`: one vector per input, order kept
EmbedAllReversed(dep, texts) == [i \in 1..Len(texts) |-> Embed(dep, texts[Len(texts) + 1 - i])]
EmbedAll(dep, texts) == [i \in 1..Len(texts) |-> Embed(dep, texts[i])]

Abs(x) == IF x < 0 THEN -x ELSE x

\* `v / (norm(v) + 1e-10)`: the direction of v, the zero vector for the zero
\* vector.  Directions are written with largest component 1, as in Vec.
Normalize(v) ==
    LET big == CHOOSE m \in {Abs(v[i]) : i \in 1..Len(v)} : \A i \in 1..Len(v) : Abs(v[i]) <= m
    IN  IF big = 0 THEN v ELSE [i \in 1..Len(v) |-> v[i] \div big]

NormalizeRows(vs) == [i \in 1..Len(vs) |-> Normalize(vs[i])]

EmbeddingsCall(dep, n) == [api |-> "embeddings", model |-> dep, inputs |-> n]

\* the key order of the payload dict: rag_index.py:82, embed_texts.py:57
KeyOrder(im) ==
    IF im = "rag_index" THEN <<"vectors", "metas", "chunks">>
    ELSE <<"vectors", "chunks", "metas">>

\* json.dumps(payload): the members of the object, in key order
DumpsByPosition(pl, order) ==
    [i \in 1..Len(order) |-> [key |-> order[i], value |-> pl[<<"vectors", "metas", "chunks">>[i]]]]
Dumps(pl, order) == [i \in 1..Len(order) |-> [key |-> order[i], value |-> pl[order[i]]]]

\* json.loads(text): the dict of the members
Loads(data) ==
    [key \in {data[i].key : i \in 1..Len(data)} |->
        data[CHOOSE i \in 1..Len(data) : data[i].key = key].value]

FileWith(data) == [exists |-> TRUE, json |-> TRUE, data |-> data]

\* an index file left by an earlier build
OldFile ==
    FileWith(Dumps([vectors |-> << [i \in 1..EmbDim |-> 1] >>,
                    metas   |-> << [source |-> "old.html", chunk_id |-> 0] >>,
                    chunks  |-> << <<"o">> >>],
                   KeyOrder("embed_texts")))

\* a file that is no JSON
BrokenFile == [exists |-> TRUE, json |-> FALSE, data |-> <<>>]

\* server.py:138-147 and 150-155: _load_index and the log line that reads
\* INDEX["chunks"], under `try`; None on any error.
\* `loaded` tags the value as a dict; None is NoIndex.
ServerLoad(file) ==
    IF ~file.exists \/ ~file.json THEN NoIndex
    ELSE LET data == Loads(file.data)
         IN  IF "vectors" \notin DOMAIN data \/ "chunks" \notin DOMAIN data THEN NoIndex
             ELSE [key \in DOMAIN data \cup {"_vecs", "loaded"} |->
                     CASE key = "_vecs"  -> NormalizeRows(data["vectors"])
                       [] key = "loaded" -> TRUE
                       [] OTHER          -> data[key]]

Queries == {<<"a">>, <<"b", "b">>}

InitBuild ==
    /\ env \in {[AZURE_OPENAI_EMBEDDINGS_DEPLOYMENT |-> d] : d \in {Unset, "my-embeddings"}}
    /\ files \in Listings
    /\ store \in {NoFile, OldFile}
    /\ bimpl \in Impls
    /\ built = Nothing /\ loaded = Nothing /\ calls = <<>>
    /\ bpc = "ready" /\ lpc = "ready"
    /\ INDEX = NoIndex /\ entry = "none" /\ qvec = <<>> /\ k = 0
    /\ top_idx = <<>> /\ results = <<>> /\ spc = "off"
    /\ ChunkIdle /\ ValidateIdle /\ HtmlIdle /\ ServerIdle

\* build_index_from_dir(data_dir, index_path)
Build ==
    /\ bpc = "ready"
    /\ LET fs == SortedFiles(files)
       IN  IF BuildRaises(fs)
           THEN /\ bpc' = "error"
                /\ UNCHANGED <<store, built, calls>>
           ELSE LET all_chunks == AllChunks(bimpl, fs)
                    metas == Metas(bimpl, fs)
                    dep == BuildDeployment(env)
                    arr == NormalizeRows(EmbedAll(dep, all_chunks))
                    pl == [vectors |-> arr, metas |-> metas, chunks |-> all_chunks]
                IN  /\ calls' = Append(calls, EmbeddingsCall(dep, Len(all_chunks)))
                    /\ store' = FileWith(Dumps(pl, KeyOrder(bimpl)))
                    /\ built' = pl
                    /\ bpc' = "built"
    /\ UNCHANGED <<env, files, bimpl, loaded, lpc>>
    /\ UNCHANGED cvars /\ UNCHANGED svars /\ UNCHANGED vvars
    /\ UNCHANGED hvars /\ UNCHANGED wvars

\* rag_index.load_index(index_path), once the build has run
LoadIndex ==
    /\ bpc # "ready" /\ lpc = "ready"
    /\ IF ~store.exists
       THEN lpc' = "notfound" /\ loaded' = loaded
       ELSE lpc' = "loaded" /\ loaded' = Loads(store.data)
    /\ UNCHANGED <<env, files, store, bimpl, built, calls, bpc>>
    /\ UNCHANGED cvars /\ UNCHANGED svars /\ UNCHANGED vvars
    /\ UNCHANGED hvars /\ UNCHANGED wvars

\* rag_index.search(index, query, k) on the index load_index returned
SearchLoaded ==
    /\ lpc = "loaded" /\ spc = "off" /\ entry = "none"
    /\ \E query \in Queries, kk \in {1, MaxK} :
          LET dep == BuildDeployment(env)
              q == Normalize(Embed(dep, query))
              sims == Sims(loaded.vectors, q)
              top == TopIdx(sims, kk)
          IN  /\ calls' = Append(calls, EmbeddingsCall(dep, 1))
              /\ qvec' = q /\ k' = kk
              /\ top_idx' = top
              /\ results' = Out(loaded, sims, top)
    /\ entry' = "search"
    /\ UNCHANGED <<INDEX, spc>>
    /\ UNCHANGED <<env, files, store, bimpl, built, loaded, bpc, lpc>>
    /\ UNCHANGED cvars /\ UNCHANGED vvars /\ UNCHANGED hvars /\ UNCHANGED wvars

\* the server process starts: `INDEX = _load_index(INDEX_PATH)` under try
ServerStart ==
    /\ lpc # "ready" /\ spc = "off"
    /\ INDEX' = ServerLoad(store)
    /\ spc' = "idle"
    /\ UNCHANGED <<entry, qvec, k, top_idx, results>>
    /\ UNCHANGED bvars
    /\ UNCHANGED cvars /\ UNCHANGED vvars /\ UNCHANGED hvars /\ UNCHANGED wvars

\* server.rag_search(q, k) with the query embedded by _embed_query
ServedSearch ==
    /\ spc = "idle" /\ INDEX.loaded
    /\ \E query \in Queries, kk \in {1, MaxK} :
          LET dep == EMB_DEP(env)
              q == Normalize(Embed(dep, query))
          IN  /\ calls' = Append(calls, EmbeddingsCall(dep, 1))
              /\ qvec' = q /\ k' = kk
              /\ RagSearchBody(q, kk)
    /\ entry' = "rag_search"
    /\ UNCHANGED INDEX
    /\ UNCHANGED <<env, files, store, bimpl, built, loaded, bpc, lpc>>
    /\ UNCHANGED cvars /\ UNCHANGED vvars /\ UNCHANGED hvars /\ UNCHANGED wvars

NextBuild == Build \/ LoadIndex \/ SearchLoaded \/ ServerStart \/ ServedSearch

SpecBuild == InitBuild /\ [][NextBuild]_vars

\* C11: a build that finds no document raises before anything else happens:
\* no request is sent to the embeddings API and the file at index_path is
\* neither created nor changed.
C11_EmptyBuildFails ==
    [][(bpc = "ready" /\ Len(files) = 0 /\ bpc' # "ready")
        => (bpc' = "error" /\ store' = store /\ calls' = <<>> /\ built' = Nothing)]_vars

C11_Witness ==
    /\ bpc = "error" /\ Len(files) = 0
    /\ store = OldFile
    /\ calls = <<>>

\* the fields of the server's INDEX, without the model's tag
IndexFields == DOMAIN INDEX \ {"loaded"}

\* C12 (the claim as stated): with either loader, loading the file build wrote
\* gives an index equal to the one build returned, no field added or removed.
C12_Original ==
    bpc = "built" =>
        /\ lpc = "loaded" => loaded = built
        /\ spc # "off" => /\ INDEX.loaded
                          /\ [key \in IndexFields |-> INDEX[key]] = built

\* C12 (amended): both loaders return the vectors, chunk texts and metadata
\* build returned, in the same order; rag_index.load_index returns exactly
\* these three fields, server._load_index adds one field, _vecs.
C12_RoundTrip ==
    bpc = "built" =>
        /\ lpc = "loaded" => loaded = built
        /\ spc # "off" => /\ INDEX.loaded
                          /\ INDEX.vectors = built.vectors
                          /\ INDEX.chunks = built.chunks
                          /\ INDEX.metas = built.metas
                          /\ IndexFields = DOMAIN built \cup {"_vecs"}

C12_Witness ==
    /\ bpc = "built" /\ lpc = "loaded" /\ spc = "idle"
    /\ Len(built.chunks) >= 3
    /\ loaded = built
    /\ INDEX.chunks = built.chunks

\* the file of data_dir with the given name
FileNamed(name) == files[CHOOSE i \in 1..Len(files) : files[i].name = name]

\* position i of the three collections of an index describes one chunk: the
\* chunk chunk_id of the file named source, and the vector of its text
OneChunkAt(ix, i) ==
    LET m == ix.metas[i]
        cs == DocChunks(bimpl, FileNamed(m.source))
    IN  /\ m.chunk_id + 1 \in 1..Len(cs)
        /\ ix.chunks[i] = cs[m.chunk_id + 1]
        /\ ix.vectors[i] = Normalize(Embed(BuildDeployment(env), ix.chunks[i]))

Aligned(ix) ==
    /\ Len(ix.vectors) = Len(ix.chunks)
    /\ Len(ix.metas) = Len(ix.chunks)
    /\ \A i \in 1..Len(ix.chunks) : OneChunkAt(ix, i)

\* every result is the score, text, source and chunk_id of one position
FromOnePosition(ix, vecs) ==
    \A j \in 1..Len(results) : \E i \in 1..Len(ix.chunks) :
        /\ results[j].score = DotFrom(vecs[i], qvec, 1)
        /\ results[j].text = ix.chunks[i]
        /\ results[j].source = ix.metas[i].source
        /\ results[j].chunk_id = ix.metas[i].chunk_id
        /\ top_idx[j] = i

\* C13: in the index build returns and in the index loaded from the file it
\* wrote, vectors, chunks and metas have one length and position i of each
\* belongs to the same chunk; every search result comes from one position.
C13_Parallel ==
    bpc = "built" =>
        /\ Aligned(built)
        /\ lpc = "loaded" => Aligned(loaded)
        /\ (spc # "off") => (INDEX.loaded /\ Aligned(INDEX))
        /\ entry = "search" => FromOnePosition(loaded, loaded.vectors)
        /\ entry = "rag_search" => FromOnePosition(INDEX, INDEX._vecs)

C13_Witness ==
    /\ bpc = "built" /\ lpc = "loaded"
    /\ entry = "rag_search"
    /\ Len(files) = 2
    /\ Len(built.chunks) >= 4
    /\ Len(results) >= 3
    /\ \E i, j \in 1..Len(built.vectors) : built.vectors[i] # built.vectors[j]

\* C14: in a built index the documents come in ascending order of source
\* name, the chunks of a document are adjacent, the chunk_ids of a document
\* are 0, 1, ..., n-1 in order, and every document has at least one chunk.
C14_DocOrder ==
    bpc = "built" =>
        LET ms == built.metas
        IN  /\ \A i, j \in 1..Len(ms) : i < j => Rank(ms[i].source) <= Rank(ms[j].source)
            /\ \A i \in 1..Len(ms) :
                  ms[i].chunk_id = Cardinality({j \in 1..(i - 1) : ms[j].source = ms[i].source})
            /\ \A f \in 1..Len(files) : \E i \in 1..Len(ms) : ms[i].source = files[f].name

C14_Witness ==
    /\ bpc = "built"
    /\ Len(files) = 2
    /\ Rank(files[1].name) > Rank(files[2].name)
    /\ \E i, j \in 1..Len(built.metas) :
          /\ built.metas[i].source # built.metas[j].source
          /\ built.metas[i].chunk_id = 2 /\ built.metas[j].chunk_id = 1

\* C16 (the claim as stated): under every setting of
\* AZURE_OPENAI_EMBEDDINGS_DEPLOYMENT, set or unset, the server embeds the
\* query with the deployment the build embedded the chunks with.
C16_SameDeployment ==
    (bpc = "built" /\ entry = "rag_search") =>
        calls[Len(calls)].model = calls[1].model

(***************************************************************************)
(* The server (server.py): the index loaded at start, require_key, and the *)
(* handlers /health, /collect, /qa and rag_search run by worker threads.   *)
(* A handler is a sequence of steps; steps of different workers interleave.*)
(***************************************************************************)
NumWorkers == 2    \* requests served at the same time

Workers == 1..NumWorkers

\* server.py:21 and 56: API_KEY
API_KEY(e) == Getenv(e, "API_KEY", "dev-key")

\* `.lower()` of the values the environment takes here
Lower(str) == IF str = "TRUE" THEN "true" ELSE str

\* server.py:22: ALLOW_EMPTY_API_KEY
ALLOW_EMPTY_API_KEY(e) == Lower(Getenv(e, "ALLOW_EMPTY_API_KEY", "false")) = "true"

\* server.py:58: CHAT_DEP (AZURE_OPENAI_CHAT_DEPLOYMENT is not set here)
CHAT_DEP == "gpt-4o-mini"

\* the x-api-key header: a string, or NoHeader (None) when it is not sent
NoHeader == "<none>"
Headers == {NoHeader, "secret"}

\* server.py:24-38, the first `def require_key`: TRUE when it raises 401.
\* The second definition rebinds the name before any route is declared.
require_key_shadowed(e, x_api_key) ==
    IF API_KEY(e) = "" THEN FALSE
    ELSE LET effective == IF x_api_key \notin {NoHeader, ""} THEN x_api_key
                          ELSE IF ALLOW_EMPTY_API_KEY(e) THEN API_KEY(e) ELSE NoHeader
         IN  effective # API_KEY(e)

\* server.py:65-67, the `require_key` the routes depend on: TRUE when it
\* raises 401
require_key(e, x_api_key) == API_KEY(e) # "" /\ x_api_key # API_KEY(e)

\* server.py:250-252: the body /health returns
HealthBodyAlwaysOk(ix) == [status |-> "ok", index |-> Len(ix.chunks)]
HealthBody(ix) ==
    IF ~ix.loaded THEN [status |-> "degraded", index |-> 0]
    ELSE [status |-> "ok", index |-> Len(ix.chunks)]

\* `if INDEX is None`, lines 167 and 274
IndexMissingIgnored(ix) == FALSE
IndexMissing(ix) == ~ix.loaded

\* what rag_search leaves in INDEX: `vecs @ qv` and the result loop only read it
IndexAfterSearchConsumed(ix) == [ix EXCEPT !["_vecs"] = Tail(@)]
IndexAfterSearch(ix) == ix

\* the chat model's replies to /collect: without or with a <<<JSON>>> block
Replies == {"text", "text<<<JSON>>>{}<<<END>>>"}

ChatCall == [api |-> "chat", model |-> CHAT_DEP, inputs |-> 1]

NoBody == [kind |-> "none"]

IdleReq ==
    [pc |-> "idle", route |-> "none", header |-> NoHeader, q |-> <<>>, top_k |-> 0,
     qv |-> <<>>, retrieved |-> <<>>, calls |-> <<>>, status |-> 0, body |-> NoBody]

\* server.py:228: `top_k: int = 5`
DefaultTopK == 5

\* the question of a /qa request
Question == <<"a">>

Routes == {"health", "collect", "qa", "rag_search"}
Protected == {"collect", "qa"}

\* the chunks of the index file a build left for the server
ServedChunks == << <<"a", "a">>, <<"a">>, <<"b">> >>

\* the index files the server may find at start
ServerStores ==
    {NoFile, BrokenFile,
     FileWith(Dumps([vectors |-> NormalizeRows(EmbedAll("text-embedding-3-large", ServedChunks)),
                     metas   |-> << [source |-> "a.html", chunk_id |-> 0],
                                    [source |-> "a.html", chunk_id |-> 1],
                                    [source |-> "b.html", chunk_id |-> 0] >>,
                     chunks  |-> ServedChunks],
                    KeyOrder("embed_texts")))}

InitServer ==
    /\ env \in {[API_KEY |-> key, ALLOW_EMPTY_API_KEY |-> allow,
                 AZURE_OPENAI_EMBEDDINGS_DEPLOYMENT |-> Unset] :
                   key \in {Unset, "", "secret"}, allow \in {Unset, "TRUE"}}
    /\ store \in ServerStores
    /\ INDEX = ServerLoad(store)
    /\ req = [w \in Workers |-> IdleReq]
    /\ files = <<>> /\ bimpl = "embed_texts" /\ built = Nothing /\ loaded = Nothing
    /\ calls = <<>> /\ bpc = "idle" /\ lpc = "idle"
    /\ entry = "none" /\ qvec = <<>> /\ k = 0
    /\ top_idx = <<>> /\ results = <<>> /\ spc = "idle"
    /\ ChunkIdle /\ ValidateIdle /\ HtmlIdle

ServerRest ==
    /\ UNCHANGED <<entry, qvec, k, top_idx, results, spc>>
    /\ UNCHANGED bvars
    /\ UNCHANGED cvars /\ UNCHANGED vvars /\ UNCHANGED hvars

\* a request arrives at an idle worker
Accept(w) ==
    /\ req[w].pc \in {"idle", "done"}
    /\ \E route \in Routes, h \in Headers :
          /\ route \notin Protected => h = NoHeader
          /\ req' = [req EXCEPT ![w] =
                       [IdleReq EXCEPT !.pc = IF route \in Protected THEN "auth" ELSE "handler",
                                       !.route = route, !.header = h,
                                       !.q = Question, !.top_k = DefaultTopK]]
    /\ UNCHANGED INDEX
    /\ ServerRest

\* `dependencies=[Depends(require_key)]` of /collect and /qa
Auth(w) ==
    /\ req[w].pc = "auth"
    /\ IF require_key(env, req[w].header)
       THEN req' = [req EXCEPT ![w].pc = "done", ![w].status = 401]
       ELSE req' = [req EXCEPT ![w].pc = "handler"]
    /\ UNCHANGED INDEX
    /\ ServerRest

\* GET /health, lines 248-252
Health(w) ==
    /\ req[w].pc = "handler" /\ req[w].route = "health"
    /\ req' = [req EXCEPT ![w].pc = "done", ![w].status = 200,
                          ![w].body = HealthBody(INDEX)]
    /\ UNCHANGED INDEX
    /\ ServerRest

\* POST /collect, lines 255-269: one chat call, the JSON block if there is one
Collect(w) ==
    /\ req[w].pc = "handler" /\ req[w].route = "collect"
    /\ \E reply \in Replies :
          req' = [req EXCEPT ![w].pc = "done", ![w].status = 200,
                             ![w].calls = Append(@, ChatCall),
                             ![w].body = [reply |-> reply,
                                          extracted_json |-> reply # "text"]]
    /\ UNCHANGED INDEX
    /\ ServerRest

\* POST /qa, lines 274-275: `if INDEX is None: raise HTTPException(503)`
QaCheck(w) ==
    /\ req[w].pc = "handler" /\ req[w].route = "qa"
    /\ IF IndexMissing(INDEX)
       THEN req' = [req EXCEPT ![w].pc = "done", ![w].status = 503]
       ELSE req' = [req EXCEPT ![w].pc = "search"]
    /\ UNCHANGED INDEX
    /\ ServerRest

\* rag_search lines 167-170: the None test, then the query is embedded
SearchEmbed(w) ==
    /\ \/ req[w].pc = "search"
       \/ req[w].pc = "handler" /\ req[w].route = "rag_search"
    /\ IF IndexMissing(INDEX)
       THEN req' = [req EXCEPT ![w].pc = "done", ![w].status = 503]
       ELSE req' = [req EXCEPT ![w].pc = "rank",
                               ![w].calls = Append(@, EmbeddingsCall(EMB_DEP(env), 1)),
                               ![w].qv = Normalize(Embed(EMB_DEP(env), req[w].q))]
    /\ UNCHANGED INDEX
    /\ ServerRest

\* rag_search lines 171-183: scores, the top k, the result list
SearchRank(w) ==
    /\ req[w].pc = "rank"
    /\ LET sims == Sims(INDEX["_vecs"], req[w].qv)
           out_ == Out(INDEX, sims, TopIdx(sims, req[w].top_k))
       IN  IF req[w].route = "rag_search"
           THEN req' = [req EXCEPT ![w].pc = "done", ![w].status = 200,
                                   ![w].retrieved = out_,
                                   ![w].body = [sources |-> out_]]
           ELSE req' = [req EXCEPT ![w].pc = "chat", ![w].retrieved = out_]
    /\ INDEX' = IndexAfterSearch(INDEX)
    /\ ServerRest

\* POST /qa, lines 281-288: the chat call and the response
QaChat(w) ==
    /\ req[w].pc = "chat"
    /\ req' = [req EXCEPT ![w].pc = "done", ![w].status = 200,
                          ![w].calls = Append(@, ChatCall),
                          ![w].body = [reply |-> "text", sources |-> req[w].retrieved]]
    /\ UNCHANGED INDEX
    /\ ServerRest

NextServer ==
    \E w \in Workers :
        \/ Accept(w) \/ Auth(w) \/ Health(w) \/ Collect(w)
        \/ QaCheck(w) \/ SearchEmbed(w) \/ SearchRank(w) \/ QaChat(w)

SpecServer == InitServer /\ [][NextServer]_vars

\* the file at INDEX_PATH can be loaded: it exists, is JSON and has vectors
\* and chunks
Loadable ==
    /\ store.exists /\ store.json
    /\ \E i \in 1..Len(store.data) : store.data[i].key = "vectors"
    /\ \E i \in 1..Len(store.data) : store.data[i].key = "chunks"

StoredChunks == store.data[CHOOSE i \in 1..Len(store.data) : store.data[i].key = "chunks"].value

HealthAsClaimed(r) ==
    r.route = "health" =>
        /\ r.status = 200
        /\ r.body.status = "ok" <=> Loadable
        /\ Loadable => r.body = [status |-> "ok", index |-> Len(StoredChunks)]
        /\ ~Loadable => r.body = [status |-> "degraded", index |-> 0]

\* C15 (the claim as stated): if the index could not be loaded at start, every
\* /health answers "degraded" with index 0 and every rag_search and /qa is
\* answered 503; /health answers "ok" with the chunk count exactly when an
\* index is loaded.
C15_Original ==
    \A w \in Workers : req[w].pc = "done" =>
        /\ HealthAsClaimed(req[w])
        /\ (~Loadable /\ req[w].route \in {"qa", "rag_search"}) => req[w].status = 503

\* C15 (amended): the same, the 503 being the answer to every rag_search call
\* and to every /qa request that passes the API-key check (a /qa request
\* with a wrong or missing key is answered 401 first).
C15_Degraded ==
    \A w \in Workers : req[w].pc = "done" =>
        /\ HealthAsClaimed(req[w])
        /\ (~Loadable /\ req[w].route = "rag_search") => req[w].status = 503
        /\ (~Loadable /\ req[w].route = "qa") =>
              /\ req[w].status \in {401, 503}
              /\ req[w].status = 503 <=>
                    (API_KEY(env) = "" \/ req[w].header = API_KEY(env))
        /\ (~Loadable /\ req[w].route \in {"qa", "rag_search"}) => req[w].calls = <<>>

C15_Witness ==
    /\ store = BrokenFile
    /\ \E w, v \in Workers :
          /\ req[w].pc = "done" /\ req[w].route = "health"
          /\ req[w].body = [status |-> "degraded", index |-> 0]
          /\ req[v].pc = "done" /\ req[v].route = "qa" /\ req[v].status = 503

\* C19: no step of any request handler, in any interleaving, changes INDEX.
C19_IndexImmutable == [][INDEX' = INDEX]_vars

C19_Witness ==
    /\ INDEX.loaded
    /\ \E w, v \in Workers :
          /\ w # v
          /\ req[w].pc = "done" /\ req[w].route = "qa" /\ req[w].status = 200
          /\ req[v].pc = "rank"

\* what the docstring of require_key promises: TRUE when the request is let in
DocumentedAccept(e, h) ==
    \/ API_KEY(e) = ""
    \/ h = API_KEY(e)
    \/ h = NoHeader /\ ALLOW_EMPTY_API_KEY(e)

\* C20 (the claim as stated): on /collect and /qa a request is rejected with
\* 401 exactly when the docstring of require_key says so.
C20_AuthAsDocumented ==
    \A w \in Workers :
        (req[w].route \in Protected /\ req[w].pc \notin {"idle", "auth"}) =>
            (req[w].status # 401 <=> DocumentedAccept(env, req[w].header))

\* the external calls a /qa request has made so far, by API
Apis(cs) == [i \in 1..Len(cs) |-> cs[i].api]

\* C23: a /qa request served without an index makes no external call, neither
\* embedding nor chat; with an index, the query embedding is requested before
\* the chat completion, and the completion is requested only once retrieval
\* has returned its results.
C23_QaOrder ==
    \A w \in Workers : req[w].route = "qa" =>
        LET r == req[w]
        IN  /\ ~Loadable => r.calls = <<>>
            /\ (~Loadable /\ r.pc = "done" /\ r.status # 401) => r.status = 503
            /\ Apis(r.calls) \in {<<>>, <<"embeddings">>, <<"embeddings", "chat">>}
            /\ Len(r.calls) = 0 => r.pc \in {"auth", "handler", "search", "done"}
            /\ Len(r.calls) = 1 => r.pc \in {"rank", "chat"}
            /\ Len(r.calls) = 2 => (r.pc = "done" /\ r.status = 200)
            /\ (r.pc = "chat" \/ Len(r.calls) = 2) =>
                  Len(r.retrieved) = Min(r.top_k, Len(StoredChunks))
            /\ Len(r.calls) = 2 => r.body.sources = r.retrieved

C23_Witness ==
    \E w, v \in Workers :
        /\ req[w].route = "qa" /\ req[w].pc = "done" /\ req[w].status = 200
        /\ Apis(req[w].calls) = <<"embeddings", "chat">>
        /\ Len(req[w].retrieved) = Len(ServedChunks)
        /\ req[v].route = "qa" /\ req[v].pc = "chat"
        /\ Apis(req[v].calls) = <<"embeddings">>

====
